---- MODULE Spec2Model ----
(***************************************************************************)
(* State-machine model of the three batch pipelines of the repository:     *)
(*   src/data-integration-methodologies/3b.ETL.py  CSV -> BigQuery (ETL)   *)
(*   src/2a.EL.py                                  MSSQL -> BigQuery (EL)  *)
(*   src/data-integration-methodologies/3a.ETL.py  literal list -> BigQuery*)
(*                                                                         *)
(* Representation.                                                         *)
(*  - A Python str is the sequence of its code points (the CSV file is     *)
(*    read as UTF-8).  Text(<<"a", "b">>) writes an ASCII str.             *)
(*  - A raw field is [t, s]: t = "str" (s holds the characters), "None"    *)
(*    (csv.DictReader's restval for a short row) or "missing" (no such     *)
(*    key in the row, so row.get returns its default).                     *)
(*  - A natural number of any size is the sequence of its base-10000       *)
(*    digits, least significant first, <<>> for 0.  A Python int is        *)
(*    [s, n]: its sign (-1, 0, 1) and its magnitude.                       *)
(*  - A Python float is an IEEE-754 double: [k, s, m, e] with k = "fin"    *)
(*    for the value s * m * 2^e, where 2^52 <= m < 2^53 and e >= -1074 (a  *)
(*    normal number), or m < 2^52 and e = -1074 (a subnormal one), or      *)
(*    m = 0 and e = 0; k = "inf" with its sign s; or k = "nan".            *)
(*    Conversions and arithmetic are correctly rounded (ties to even), as  *)
(*    the interpreter's are.                                               *)
(*  - str.title() is modelled on the code points 0..255; casing a          *)
(*    character outside that range is left undefined.                      *)
(***************************************************************************)
EXTENDS Integers, Sequences, FiniteSets, TLC

\* ------------------------------------------------------------------ bounds
MaxLen == 2      \* longest raw batch handed to transform_sales_data
MaxRuns == 2     \* invocations of a pipeline that are followed
MaxClock == 2    \* wall-clock readings (utcnow) that are told apart

\* -------------------------------------------------------------- characters
IndexIn(c, alphabet) ==
    IF \E i \in 1..Len(alphabet) : alphabet[i] = c
    THEN CHOOSE i \in 1..Len(alphabet) : alphabet[i] = c
    ELSE 0

\* The printable ASCII characters in code-point order: 32..95 and 97..126.
AsciiLow ==
    <<" ", "!", "\"", "#", "$", "%", "&", "'", "(", ")", "*", "+", ",", "-",
      ".", "/", "0", "1", "2", "3", "4", "5", "6", "7", "8", "9", ":", ";",
      "<", "=", ">", "?", "@", "A", "B", "C", "D", "E", "F", "G", "H", "I",
      "J", "K", "L", "M", "N", "O", "P", "Q", "R", "S", "T", "U", "V", "W",
      "X", "Y", "Z", "[", "\\", "]", "^", "_">>
\* The code point of an ASCII character.
Ord(c) ==
    IF IndexIn(c, AsciiLow) > 0 THEN 31 + IndexIn(c, AsciiLow)
    ELSE 96 + IndexIn(c, <<"a", "b", "c", "d", "e", "f", "g", "h", "i", "j", "k",
                             "l", "m", "n", "o", "p", "q", "r", "s", "t", "u", "v",
                             "w", "x", "y", "z", "{", "|", "}", "~">>)
\* A sequence given by a rule, as a tuple.
AsSeq(f) == SubSeq(f, 1, Len(f))
Text(s) == AsSeq([i \in 1..Len(s) |-> Ord(s[i])])

Space == Ord(" ")
Minus == Ord("-")
Underscore == Ord("_")
Zero == Ord("0")

\* The characters str.strip(), int() and float() treat as whitespace.
Whitespace ==
    (9..13) \cup (28..32) \cup {133, 160, 5760} \cup (8192..8202)
    \cup {8232, 8233, 8239, 8287, 12288}

\* The code points of the digit zero of every decimal digit script; the nine
\* that follow each are its digits 1..9.  int(), float() and the \d of
\* strptime's pattern read them all.
DecimalZeros ==
    {48, 1632, 1776, 1984, 2406, 2534, 2662, 2790, 2918, 3046, 3174, 3302,
     3430, 3558, 3664, 3792, 3872, 4160, 4240, 6112, 6160, 6470, 6608,
     6784, 6800, 6992, 7088, 7232, 7248, 42528, 43216, 43264, 43472, 43504,
     43600, 44016, 65296, 66720, 68912, 69734, 69872, 69942, 70096, 70384,
     70736, 70864, 71248, 71360, 71472, 71904, 72016, 72784, 73040, 73120,
     92768, 92864, 93008, 120782, 120792, 120802, 120812, 120822, 123200,
     123632, 125264, 130032}
IsDigit(c) == \E z \in DecimalZeros : c \in z..(z + 9)

\* The characters str.title() is modelled on.
Latin1 == 0..255

\* Cased characters: the letters with an upper or lower case.
IsCased(c) ==
    CASE c \in Latin1 ->
        c \in (65..90) \cup (97..122) \cup {170, 181, 186}
              \cup (192..214) \cup (216..246) \cup (248..255)

\* The title-case form of a character (one or two characters).
TitleCase(c) ==
    CASE c \in Latin1 ->
        IF c \in (97..122) \cup (224..246) \cup (248..254) THEN <<c - 32>>
        ELSE IF c = 181 THEN <<924>>
        ELSE IF c = 223 THEN <<83, 115>>
        ELSE IF c = 255 THEN <<376>>
        ELSE <<c>>

\* The lower-case form of a character.
ToLower(c) ==
    CASE c \in Latin1 ->
        IF c \in (65..90) \cup (192..214) \cup (216..222) THEN c + 32 ELSE c

\* The first and the last position of s holding a character outside the set
\* `blank` (Len(s) + 1 and 0 when there is none).
FirstOutside(s, blank) ==
    CHOOSE i \in 1..(Len(s) + 1) :
        /\ i = Len(s) + 1 \/ s[i] \notin blank
        /\ \A j \in 1..(i - 1) : s[j] \in blank
LastOutside(s, blank) ==
    CHOOSE i \in 0..Len(s) :
        /\ i = 0 \/ s[i] \notin blank
        /\ \A j \in (i + 1)..Len(s) : s[j] \in blank
\* s without its leading and trailing characters of the set `blank`.
StripOf(s, blank) == SubSeq(s, FirstOutside(s, blank), LastOutside(s, blank))

\* str.strip(): leading and trailing whitespace removed.
Strip(s) == StripOf(s, Whitespace)

\* The whitespace int() and float() drop around a numeral: the separators
\* 28..31 are not among it.
NumStrip(s) == StripOf(s, Whitespace \ (28..31))

\* str.title(): a cased character that follows an uncased one (or starts the
\* string) is title-cased, one that follows a cased character lower-cased.
Title(s) ==
    LET piece == [i \in 1..Len(s) |->
                    IF i > 1 /\ IsCased(s[i - 1]) THEN <<ToLower(s[i])>>
                    ELSE TitleCase(s[i])]
        start == [i \in 1..Len(s) |->
                    i + Cardinality({h \in 1..(i - 1) : Len(piece[h]) = 2})]
        length == Len(s) + Cardinality({h \in 1..Len(s) : Len(piece[h]) = 2})
    IN  AsSeq([j \in 1..length |->
            LET i == CHOOSE i \in 1..Len(s) : j \in start[i]..(start[i] + Len(piece[i]) - 1)
            IN  piece[i][j - start[i] + 1]])


SignOf(s) == IF s # <<>> /\ Head(s) = Minus THEN -1 ELSE 1
Unsigned(s) == IF s # <<>> /\ Head(s) \in {Ord("+"), Minus} THEN Tail(s) ELSE s

\* digitpart: digits, with single underscores allowed between two digits.
DigitPart(s) ==
    /\ s # <<>> /\ IsDigit(s[1]) /\ IsDigit(s[Len(s)])
    /\ \A i \in 1..Len(s) : IsDigit(s[i]) \/ s[i] = Underscore
    /\ \A i \in 1..(Len(s) - 1) : ~(s[i] = Underscore /\ s[i + 1] = Underscore)
\* The values of the digits of a digitpart, in order.
DigitVals(s) ==
    LET ds == SelectSeq(s, LAMBDA c : c # Underscore)
    IN  AsSeq([i \in 1..Len(ds) |->
                   ds[i] - (CHOOSE z \in DecimalZeros : ds[i] \in z..(z + 9))])
\* The number a short sequence of decimal digit values writes.
RECURSIVE SmallValue(_)
SmallValue(ds) ==
    IF ds = <<>> THEN 0
    ELSE 10 * SmallValue(SubSeq(ds, 1, Len(ds) - 1)) + ds[Len(ds)]
\* ds without its leading zeros.
StripZeros(ds) == SubSeq(ds, FirstOutside(ds, {0}), Len(ds))

\* ------------------------------------------------------------------ fields
Str(s) == [t |-> "str", s |-> s]
Missing == [t |-> "missing", s |-> <<>>]

\* row.get(key, default): the default only when the key is absent.
Get(row, key, default) == IF row[key].t = "missing" THEN Str(default) ELSE row[key]

\* -------------------------------------------------------- natural numbers
\* Naturals of any size: base-10000 digits ("limbs"), least significant
\* first, no leading zero limb; <<>> is 0.
Base == 10000

Limb(a, i) == IF i \in 1..Len(a) THEN a[i] ELSE 0
Trim(a) == SubSeq(a, 1, LastOutside(a, {0}))
\* The natural of a machine integer n >= 0.
NatOf(n) == Trim(<<n % Base, (n \div Base) % Base, n \div (Base * Base)>>)

\* -1, 0 or 1 as a < b, a = b or a > b.
Cmp(a, b) ==
    IF a = b THEN 0
    ELSE IF Len(a) # Len(b) THEN (IF Len(a) < Len(b) THEN -1 ELSE 1)
    ELSE LET i == CHOOSE i \in 1..Len(a) :
                      a[i] # b[i] /\ \A j \in (i + 1)..Len(a) : a[j] = b[j]
         IN  IF a[i] < b[i] THEN -1 ELSE 1

\* a + b: limb sums, a carry entering position i when a lower sum overflows
\* and every sum in between is Base - 1.
Add(a, b) ==
    LET n == IF Len(a) < Len(b) THEN Len(b) ELSE Len(a)
        sum == AsSeq([i \in 1..(n + 1) |-> Limb(a, i) + Limb(b, i)])
        carry == [i \in 1..(n + 1) |->
                    IF \E j \in 1..(i - 1) :
                           sum[j] >= Base /\ \A h \in (j + 1)..(i - 1) : sum[h] = Base - 1
                    THEN 1 ELSE 0]
    IN  Trim([i \in 1..(n + 1) |-> (sum[i] + carry[i]) % Base])

\* a - b, for a >= b: limb differences, a borrow entering position i when a
\* lower difference is negative and every difference in between is 0.
Sub(a, b) ==
    LET diff == AsSeq([i \in 1..Len(a) |-> a[i] - Limb(b, i)])
        borrow == [i \in 1..Len(a) |->
                     IF \E j \in 1..(i - 1) :
                            diff[j] < 0 /\ \A h \in (j + 1)..(i - 1) : diff[h] = 0
                     THEN 1 ELSE 0]
    IN  Trim([i \in 1..Len(a) |-> (diff[i] - borrow[i] + Base) % Base])

\* a with k zero limbs below it: a * Base^k.
ShiftLimbs(a, k) == IF a = <<>> THEN <<>> ELSE [i \in 1..k |-> 0] \o a

\* a * k for a small k (0 <= k <= Base): the low and the high halves of the
\* limb products, added.
MulSmall(a, k) ==
    Add(AsSeq([i \in 1..Len(a) |-> (a[i] * k) % Base]),
        <<0>> \o [i \in 1..Len(a) |-> (a[i] * k) \div Base])
Twice(a) == MulSmall(a, 2)

\* a * b, splitting b in halves.
RECURSIVE Mul(_, _)
Mul(a, b) ==
    IF a = <<>> \/ b = <<>> THEN <<>>
    ELSE IF Len(b) = 1 THEN MulSmall(a, b[1])
    ELSE LET h == Len(b) \div 2
         IN  Add(Mul(a, Trim(SubSeq(b, 1, h))),
                 ShiftLimbs(Mul(a, SubSeq(b, h + 1, Len(b))), h))

IsOdd(a) == a # <<>> /\ a[1] % 2 = 1

\* 2^n and 10^n: 2^n is one limb up to n = 13.
Squared(a, k) == MulSmall(Mul(a, a), k)
RECURSIVE Pow2(_)
Pow2(n) ==
    IF n <= 13 THEN <<2 ^ n>>
    ELSE Squared(Pow2(n \div 2), IF n % 2 = 1 THEN 2 ELSE 1)
Pow10(n) == ShiftLimbs(<<10 ^ (n % 4)>>, n \div 4)
\* a * 2^n.
ShiftLeft(a, n) == Mul(a, Pow2(n))

\* Long division of num by den (its top limb at least Base \div 2), from limb
\* i of num down, rem being what is left of the limbs above: each quotient
\* limb is estimated from the top limbs and is at most 2 too large.
QuotientLimb(den, part, top) ==
    (IF top \div den[Len(den)] < Base THEN top \div den[Len(den)] ELSE Base - 1)
    - Cardinality({k \in 0..1 :
         /\ k <= top \div den[Len(den)]
         /\ Cmp(MulSmall(den, (IF top \div den[Len(den)] < Base THEN top \div den[Len(den)]
                                ELSE Base - 1) - k),
                part) > 0})
WithLimb(rest, digit) == [q |-> rest.q \o <<digit>>, r |-> rest.r]
RECURSIVE LongDiv(_, _, _, _)
LongDivLimb(num, den, i, part, digit) ==
    WithLimb(LongDiv(num, den, i - 1, Sub(part, MulSmall(den, digit))), digit)
LongDivPart(num, den, i, part) ==
    LongDivLimb(num, den, i, part,
                QuotientLimb(den, part,
                             Limb(part, Len(den) + 1) * Base + Limb(part, Len(den))))
LongDiv(num, den, i, rem) ==
    IF i = 0 THEN [q |-> <<>>, r |-> rem]
    ELSE LongDivPart(num, den, i, Trim(<<num[i]>> \o rem))

\* Quotient and remainder of n by d (d > 0): both are scaled so that long
\* division applies.
WithRemainder(n, d, q) == [q |-> q, r |-> Sub(n, Mul(d, q))]
DivModScaled(n, d, num, den) ==
    IF Len(num) < Len(den) THEN [q |-> <<>>, r |-> n]
    ELSE WithRemainder(n, d, Trim(LongDiv(num, den, Len(num) - Len(den) + 1,
                                          SubSeq(num, Len(num) - Len(den) + 2, Len(num))).q))
DivMod(n, d) ==
    DivModScaled(n, d, MulSmall(n, Base \div (d[Len(d)] + 1)),
                 MulSmall(d, Base \div (d[Len(d)] + 1)))

\* The integer nearest to n/d, an exact tie going to the even one.
RoundQuotient(dm, d) ==
    IF Cmp(Twice(dm.r), d) > 0 \/ (Cmp(Twice(dm.r), d) = 0 /\ IsOdd(dm.q))
    THEN Add(dm.q, <<1>>) ELSE dm.q
RoundDiv(n, d) == RoundQuotient(DivMod(n, d), d)

\* The natural written by a sequence of decimal digit values.
DigitsToNat(ds) ==
    Trim([i \in 1..((Len(ds) + 3) \div 4) |->
            SmallValue(SubSeq(ds, IF Len(ds) - 4 * i + 1 < 1 THEN 1 ELSE Len(ds) - 4 * i + 1,
                              Len(ds) - 4 * (i - 1)))])

\* The number of bits of a, within 2 of the exact count.
BitLen(a) ==
    IF a = <<>> THEN 0
    ELSE (CHOOSE k \in 1..14 : a[Len(a)] < 2 ^ k /\ 2 ^ (k - 1) <= a[Len(a)])
         + ((Len(a) - 1) * 132877) \div Base

\* ----------------------------------------------------------------- doubles
NaN == [k |-> "nan", s |-> 1, m |-> <<>>, e |-> 0]
Inf(sign) == [k |-> "inf", s |-> sign, m |-> <<>>, e |-> 0]
FloatZero(sign) == [k |-> "fin", s |-> sign, m |-> <<>>, e |-> 0]

\* IEEE-754 binary64: 53 significant bits, the exponent of the last bit from
\* -1074 (subnormal numbers) to 971.
MantBits == 53
MaxExp == 971

\* low <= n < 2 * low.
FromLow(n, low) == Cmp(n, low) >= 0 /\ Cmp(n, Twice(low)) < 0
\* num/den / 2^e is at least 2^52 and below 2^53.
Between(num, den, e) ==
    FromLow(ShiftLeft(num, IF e < 0 THEN -e ELSE 0),
            ShiftLeft(den, (IF e > 0 THEN e ELSE 0) + MantBits - 1))
AtLeast(e, low) == IF e < low THEN low ELSE e
\* The exponent that puts num/den / 2^e in [2^52, 2^53), or -1074 if that
\* is larger.
Exponent(num, den, guess) ==
    AtLeast(CHOOSE e \in (guess - 4)..(guess + 4) : Between(num, den, e), -1074)
\* The double of the significand m at the exponent e; rounding may have
\* carried m to 2^53.
Significand(sign, m, e) ==
    IF m = <<>> THEN FloatZero(sign)
    ELSE IF e > MaxExp \/ (e = MaxExp /\ m = Pow2(MantBits)) THEN Inf(sign)
    ELSE IF m = Pow2(MantBits)
    THEN [k |-> "fin", s |-> sign, m |-> Pow2(MantBits - 1), e |-> e + 1]
    ELSE [k |-> "fin", s |-> sign, m |-> m, e |-> e]
Normalised(sign, num, den, e) ==
    Significand(sign,
                RoundDiv(ShiftLeft(num, IF e < 0 THEN -e ELSE 0),
                         ShiftLeft(den, IF e > 0 THEN e ELSE 0)),
                e)

\* The double nearest to sign * num/den (den > 0), ties to even: with e the
\* exponent that puts num/den / 2^e in [2^52, 2^53), or -1074 if that is
\* larger, the significand is num/den / 2^e rounded to an integer; inf when
\* the result is 2^1024 or more.
NearestDouble(sign, num, den) ==
    IF num = <<>> THEN FloatZero(sign)
    ELSE Normalised(sign, num, den,
                    Exponent(num, den, BitLen(num) - BitLen(den) - MantBits))

\* The double nearest to sign * m * 2^e.
ExactToDouble(sign, m, e) ==
    NearestDouble(sign, ShiftLeft(m, IF e > 0 THEN e ELSE 0), Pow2(IF e < 0 THEN -e ELSE 0))

\* x * y on doubles.
FMul(x, y) ==
    IF x.k = "nan" \/ y.k = "nan" THEN NaN
    ELSE IF x.k = "inf" \/ y.k = "inf"
    THEN (IF (x.k = "fin" /\ x.m = <<>>) \/ (y.k = "fin" /\ y.m = <<>>)
          THEN NaN ELSE Inf(x.s * y.s))
    ELSE ExactToDouble(x.s * y.s, Mul(x.m, y.m), x.e + y.e)

\* x - y on finite doubles that are not negative.
Difference(a, b, e) ==
    ExactToDouble(IF Cmp(a, b) >= 0 THEN 1 ELSE -1,
                  IF Cmp(a, b) >= 0 THEN Sub(a, b) ELSE Sub(b, a), e)
FSubAt(x, y, e) == Difference(ShiftLeft(x.m, x.e - e), ShiftLeft(y.m, y.e - e), e)
FSub(x, y) == FSubAt(x, y, IF x.e < y.e THEN x.e ELSE y.e)

\* -1, 0 or 1 as the finite double x is below, at or above the natural n.
FloatCmpNat(x, n) ==
    IF x.m = <<>> THEN (IF n = <<>> THEN 0 ELSE -1)
    ELSE IF x.s < 0 THEN -1
    ELSE Cmp(ShiftLeft(x.m, IF x.e > 0 THEN x.e ELSE 0),
             ShiftLeft(n, IF x.e < 0 THEN -x.e ELSE 0))

\* x > n and x >= n for a float x and a whole number n >= 0: False for nan.
FloatGt(x, n) == (x.k = "fin" /\ FloatCmpNat(x, NatOf(n)) > 0) \/ (x.k = "inf" /\ x.s > 0)
FloatGe(x, n) == (x.k = "fin" /\ FloatCmpNat(x, NatOf(n)) >= 0) \/ (x.k = "inf" /\ x.s > 0)

\* The double of the decimal n / 10^places.
Dec(n, places) == NearestDouble(1, NatOf(n), Pow10(places))

\* round(x, 2): the decimal with two places nearest to the exact value of x
\* (ties to even), then the double nearest to that decimal; nan, inf and the
\* doubles of 2^52 and more round to themselves.
Round2(x) ==
    IF x.k # "fin" \/ x.e >= 0 THEN x
    ELSE NearestDouble(x.s, RoundDiv(MulSmall(x.m, 100), Pow2(-x.e)), <<100>>)

\* ------------------------------------------------------------------- int()

\* A Python int: sign and magnitude.
PyInt(sign, n) == [s |-> IF n = <<>> THEN 0 ELSE sign, n |-> n]

\* int(x): TypeError for None; for a str, surrounding whitespace is dropped and
\* an optional sign and a digitpart are read; anything else, or more digits
\* than 4300 (sys.get_int_max_str_digits()), is ValueError.
IntOfDigits(sign, body, digits) ==
    IF DigitPart(body) /\ Len(digits) <= 4300
    THEN [exc |-> "none", val |-> PyInt(sign, DigitsToNat(digits))]
    ELSE [exc |-> "ValueError", val |-> PyInt(1, <<>>)]
IntOfText(s) == IntOfDigits(SignOf(s), Unsigned(s), DigitVals(Unsigned(s)))
ParseInt(f) ==
    IF f.t = "None" THEN [exc |-> "TypeError", val |-> PyInt(1, <<>>)]
    ELSE IntOfText(NumStrip(f.s))

\* ----------------------------------------------------------------- float()
\* The least member of a set of positions, 0 when it is empty.
Least(S) == IF S = {} THEN 0 ELSE CHOOSE i \in S : \A j \in S : i <= j
\* s before and after position i: all of s and nothing when i = 0.
Before(s, i) == IF i = 0 THEN s ELSE SubSeq(s, 1, i - 1)
After(s, i) == IF i = 0 THEN <<>> ELSE SubSeq(s, i + 1, Len(s))

\* The position of the exponent mark of a numeral, 0 when it has none.
ExpAt(s) == Least({i \in 1..Len(s) : s[i] \in {Ord("e"), Ord("E")}})
Mantissa(s) == Before(s, ExpAt(s))
ExponentText(s) == After(s, ExpAt(s))

DotAt(s) == IndexIn(Ord("."), s)
IntPart(s) == Before(s, DotAt(s))
FracPart(s) == After(s, DotAt(s))

\* floatnumber: [digitpart] "." digitpart | digitpart ["."], then optionally
\* an exponent mark, an optional sign and a digitpart.
PointFloat(int, frac, dot) ==
    IF dot = 0 THEN DigitPart(int)
    ELSE /\ int = <<>> \/ DigitPart(int)
         /\ frac = <<>> \/ DigitPart(frac)
         /\ int \o frac # <<>>
IsDecimal(s) ==
    /\ PointFloat(IntPart(Mantissa(s)), FracPart(Mantissa(s)), DotAt(Mantissa(s)))
    /\ ExpAt(s) # 0 => DigitPart(Unsigned(ExponentText(s)))

\* Exponents are read up to 10^7; decimal magnitudes above 10^310 are inf
\* and below 10^-330 are 0, whatever their digits.

\* The double a valid numeral denotes: its digits times a power of ten,
\* correctly rounded.
ExponentValue(xdigits) == IF Len(xdigits) > 7 THEN 10000000 ELSE SmallValue(xdigits)
DecimalDigits(sign, digits, scale) ==
    IF digits = <<>> THEN FloatZero(sign)
    ELSE IF Len(digits) + scale > 310 THEN Inf(sign)
    ELSE IF Len(digits) + scale < -330 THEN FloatZero(sign)
    ELSE NearestDouble(sign,
                       Mul(DigitsToNat(digits), Pow10(IF scale > 0 THEN scale ELSE 0)),
                       Pow10(IF scale < 0 THEN -scale ELSE 0))
DecimalOf(sign, m, x) ==
    DecimalDigits(sign, StripZeros(DigitVals(IntPart(m)) \o DigitVals(FracPart(m))),
                  SignOf(x) * ExponentValue(StripZeros(DigitVals(Unsigned(x))))
                  - Len(DigitVals(FracPart(m))))
DecimalValue(sign, s) == DecimalOf(sign, Mantissa(s), ExponentText(s))

\* float(x): TypeError for None; for a str, surrounding whitespace is dropped,
\* then an optional sign and "nan", "inf"/"infinity" (in any case) or a
\* decimal numeral; anything else is ValueError.
FloatOfBody(sign, body, lower) ==
    IF lower = Text(<<"n", "a", "n">>)
    THEN [exc |-> "none", val |-> NaN]
    ELSE IF lower \in {Text(<<"i", "n", "f">>),
                       Text(<<"i", "n", "f", "i", "n", "i", "t", "y">>)}
    THEN [exc |-> "none", val |-> Inf(sign)]
    ELSE IF IsDecimal(body)
    THEN [exc |-> "none", val |-> DecimalValue(sign, body)]
    ELSE [exc |-> "ValueError", val |-> NaN]
FloatOfText(s) ==
    FloatOfBody(SignOf(s), Unsigned(s),
                AsSeq([i \in 1..Len(Unsigned(s)) |->
                           IF Unsigned(s)[i] \in 65..90 THEN Unsigned(s)[i] + 32
                           ELSE Unsigned(s)[i]]))
ParseFloat(f) ==
    IF f.t = "None" THEN [exc |-> "TypeError", val |-> NaN]
    ELSE FloatOfText(NumStrip(f.s))

\* ---------------------------------------------------------------- amounts
\* An int as a float operand: OverflowError when it is beyond the doubles
\* (no int of more than 78 limbs is within them).
FloatOrOverflow(i, x) ==
    IF Len(i.n) > 78 \/ x.k = "inf"
    THEN [exc |-> "OverflowError", val |-> NaN]
    ELSE [exc |-> "none", val |-> x]
IntToFloat(i) == FloatOrOverflow(i, NearestDouble(IF i.s < 0 THEN -1 ELSE 1, i.n, <<1>>))

\* round(quantity * price, 2): int * float, then round.
TimesPrice(q, price) ==
    IF q.exc # "none" THEN q
    ELSE [exc |-> "none", val |-> Round2(FMul(q.val, price))]
TotalAmount(quantity, price) == TimesPrice(IntToFloat(quantity), price)

\* 0.1 if total_amount > 1000 else 0.0
DiscountThreshold == 1000
DiscountRate == Dec(1, 1)
NoDiscount == FloatZero(1)
\* (mutant) the discount also at exactly the threshold.
DiscountFromThreshold(total_amount) ==
    IF FloatGe(total_amount, DiscountThreshold) THEN DiscountRate ELSE NoDiscount
Discount(total_amount) ==
    IF FloatGt(total_amount, DiscountThreshold) THEN DiscountRate ELSE NoDiscount

\* round(total_amount * (1 - discount), 2)
FinalAmount(total_amount, discount) ==
    Round2(FMul(total_amount, FSub(Dec(1, 0), discount)))

\* "High Value" if final_amount >= 500 else "Standard".
HighValueThreshold == 500
\* (mutant) "High Value" only above the threshold.
CategoryAboveThreshold(final_amount) ==
    IF FloatGt(final_amount, HighValueThreshold) THEN "High Value" ELSE "Standard"
Category(final_amount) ==
    IF FloatGe(final_amount, HighValueThreshold) THEN "High Value" ELSE "Standard"

\* ------------------------------------------------- strptime / isoformat
DaysInMonth(y, m) ==
    IF m = 2 THEN (IF (y % 4 = 0 /\ y % 100 # 0) \/ y % 400 = 0 THEN 29 ELSE 28)
    ELSE IF m \in {4, 6, 9, 11} THEN 30 ELSE 31

\* %Y: four digits.  %m: 1[0-2], 0[1-9] or [1-9].  %d: 3[01], [12]\d, 0[1-9],
\* [1-9] or a blank and [1-9].  Only \d reads the digits of other scripts.
MonthText(s) ==
    \/ Len(s) = 2 /\ s[1] = Ord("1") /\ s[2] \in Ord("0")..Ord("2")
    \/ Len(s) = 2 /\ s[1] = Ord("0") /\ s[2] \in Ord("1")..Ord("9")
    \/ Len(s) = 1 /\ s[1] \in Ord("1")..Ord("9")
DayText(s) ==
    \/ Len(s) = 2 /\ s[1] = Ord("3") /\ s[2] \in Ord("0")..Ord("1")
    \/ Len(s) = 2 /\ s[1] \in Ord("1")..Ord("2") /\ IsDigit(s[2])
    \/ Len(s) = 2 /\ s[1] \in {Ord("0"), Space} /\ s[2] \in Ord("1")..Ord("9")
    \/ Len(s) = 1 /\ s[1] \in Ord("1")..Ord("9")
\* int() of the matched text.
FieldValue(s) == SmallValue(DigitVals(StripOf(s, {Space})))

\* datetime.strptime(s, "%Y-%m-%d").date(): year, "-", month, "-", day,
\* nothing more; ValueError when the text does not match or names no calendar
\* day (year 0, 30 February, ...).
NoDate == [exc |-> "ValueError", val |-> [y |-> 0, m |-> 0, d |-> 0]]
DateOf(y, m, d) ==
    IF y >= 1 /\ d <= DaysInMonth(y, m)
    THEN [exc |-> "none", val |-> [y |-> y, m |-> m, d |-> d]]
    ELSE NoDate
DateOfTexts(year, mon, day) ==
    IF MonthText(mon) /\ DayText(day)
    THEN DateOf(FieldValue(year), FieldValue(mon), FieldValue(day))
    ELSE NoDate
AfterYear(year, rest) ==
    IF IndexIn(Minus, rest) > 0
    THEN DateOfTexts(year, Before(rest, IndexIn(Minus, rest)),
                     After(rest, IndexIn(Minus, rest)))
    ELSE NoDate
Strptime(s) ==
    IF Len(s) >= 5 /\ (\A i \in 1..4 : IsDigit(s[i])) /\ s[5] = Minus
    THEN AfterYear(SubSeq(s, 1, 4), SubSeq(s, 6, Len(s)))
    ELSE NoDate

\* n written with at least `width` digits, zero-padded on the left.
RECURSIVE ZeroPad(_, _)
ZeroPad(n, width) ==
    IF n < 10 /\ width <= 1 THEN <<Zero + n>>
    ELSE ZeroPad(n \div 10, width - 1) \o <<Zero + (n % 10)>>


\* --------------------------------------------------- transform_sales_data
Unknown == Text(<<"U", "n", "k", "n", "o", "w", "n">>)

\* The except clause of the row loop: which exceptions it swallows.

\* One iteration of the row loop.  outcome: "append" (rec holds the enriched
\* row), "skip" (the `continue` of the validity test), "caught" (an exception
\* the except clause swallows) or "raise" (an exception that leaves the loop
\* and the function).
Outcome(e) ==
    [outcome |-> IF e \in {"ValueError", "KeyError"} THEN "caught" ELSE "raise", exc |-> e, rec |-> <<>>]

\* The dictionary appended to transformed_data.
Enriched(order_id, customer, product, quantity, price, order_date, total_amount, discount, final_amount) ==
    [outcome |-> "append", exc |-> "none",
     rec |-> << [order_id |-> order_id,
                 customer |-> customer,
                 product |-> product,
                 quantity |-> quantity,
                 price |-> price,
                 order_date |-> order_date,
                 total_amount |-> total_amount,
                 discount_rate |-> discount,
                 final_amount |-> final_amount,
                 category |-> Category(final_amount)] >>]

\* From the discount on.
Discounted(order_id, customer, product, quantity, price, order_date, total_amount, discount) ==
    Enriched(order_id, customer, product, quantity, price, order_date,
             total_amount, discount, FinalAmount(total_amount, discount))

\* From the total on: quantity * price raises OverflowError for a quantity
\* beyond the doubles.
Totalled(order_id, customer, product, quantity, price, order_date, total_amount) ==
    IF total_amount.exc # "none" THEN Outcome(total_amount.exc)
    ELSE Discounted(order_id, customer, product, quantity, price, order_date,
                    total_amount.val, Discount(total_amount.val))

\* From the parsed date on: order_date.isoformat() is YYYY-MM-DD.
Dated(order_id, customer, product, quantity, price, order_date) ==
    IF order_date.exc # "none" THEN Outcome(order_date.exc)
    ELSE Totalled(order_id, customer, product, quantity, price,
                  ZeroPad(order_date.val.y, 4) \o <<Minus>>
                      \o ZeroPad(order_date.val.m, 2) \o <<Minus>>
                      \o ZeroPad(order_date.val.d, 2),
                  TotalAmount(quantity, price))

\* The fields as they are read, in the order the loop reads them, the
\* validity test and what follows it.
Cleaned(order_id, customer, product, quantity, price, order_date_str) ==
    IF "None" \in {order_id.t, customer.t, product.t} THEN Outcome("AttributeError")
    ELSE IF quantity.exc # "none" THEN Outcome(quantity.exc)
    ELSE IF price.exc # "none" THEN Outcome(price.exc)
    ELSE IF order_date_str.t = "None" THEN Outcome("AttributeError")
    ELSE IF \/ Strip(order_id.s) = <<>>
            \/ quantity.val.s <= 0
            \/ price.val.k = "fin" /\ (price.val.m = <<>> \/ price.val.s < 0)
            \/ price.val.k = "inf" /\ price.val.s < 0
    THEN [outcome |-> "skip", exc |-> "none", rec |-> <<>>]
    ELSE Dated(Strip(order_id.s), Title(Strip(customer.s)), Strip(product.s),
               quantity.val, price.val, Strptime(Strip(order_date_str.s)))

TransformRow(row) ==
    Cleaned(Get(row, "order_id", <<>>),
            Get(row, "customer_name", Unknown),
            Get(row, "product", <<>>),
            ParseInt(Get(row, "quantity", Text(<<"0">>))),
            ParseFloat(Get(row, "price", Text(<<"0">>))),
            Get(row, "order_date", <<>>))


\* ------------------------------------------------------------ raw records
Row(order_id, customer_name, product, quantity, price, order_date) ==
    [order_id |-> Str(order_id), customer_name |-> Str(customer_name),
     product |-> Str(product), quantity |-> Str(quantity), price |-> Str(price),
     order_date |-> Str(order_date)]

\* The header of the CSV file: the keys of every row DictReader yields.

\* The row DictReader yields for a line with only its first k fields: each
\* missing field is None (restval).
ShortLine(row, k) ==
    [f \in DOMAIN row |->
        IF IndexIn(f, <<"order_id", "customer_name", "product", "quantity", "price",
                        "order_date">>) <= k
        THEN row[f] ELSE [t |-> "None", s |-> <<>>]]

\* The six rows the script writes to sales_data.csv.
SampleData ==
    <<
       Row(Text(<<"O", "R", "D", "0", "0", "1">>), Text(<<"j", "o", "h", "n", " ", "d", "o", "e">>), Text(<<"L", "a", "p", "t", "o", "p">>),
           Text(<<"2">>), Text(<<"8", "9", "9", ".", "9", "9">>),
           Text(<<"2", "0", "2", "6", "-", "0", "2", "-", "1", "5">>)),
       Row(Text(<<"O", "R", "D", "0", "0", "2">>), Text(<<"J", "A", "N", "E", " ", "S", "M", "I", "T", "H">>), Text(<<"M", "o", "u", "s", "e">>),
           Text(<<"5">>), Text(<<"2", "5", ".", "5", "0">>),
           Text(<<"2", "0", "2", "6", "-", "0", "2", "-", "1", "6">>)),
       Row(Text(<<"O", "R", "D", "0", "0", "3">>), Text(<<"a", "l", "i", "c", "e", " ", "b", "r", "o", "w", "n">>), Text(<<"M", "o", "n", "i", "t", "o", "r">>),
           Text(<<"3">>), Text(<<"4", "5", "0", ".", "0", "0">>),
           Text(<<"2", "0", "2", "6", "-", "0", "2", "-", "1", "7">>)),
       Row(Text(<<"O", "R", "D", "0", "0", "4">>), Text(<<"b", "o", "b", " ", "w", "i", "l", "s", "o", "n">>), Text(<<"K", "e", "y", "b", "o", "a", "r", "d">>),
           Text(<<"1", "0">>), Text(<<"7", "5", ".", "0", "0">>),
           Text(<<"2", "0", "2", "6", "-", "0", "2", "-", "1", "8">>)),
       Row(Text(<<"O", "R", "D", "0", "0", "5">>), Text(<<"j", "o", "h", "n", " ", "d", "o", "e">>), Text(<<"D", "e", "s", "k">>),
           Text(<<"1">>), Text(<<"5", "9", "9", ".", "9", "9">>),
           Text(<<"2", "0", "2", "6", "-", "0", "2", "-", "2", "0">>)),
       Row(Text(<<"I", "N", "V", "A", "L", "I", "D">>), Text(<<"t", "e", "s", "t">>), Text(<<"B", "a", "d">>),
           Text(<<"-", "1">>), Text(<<"0">>),
           Text(<<"2", "0", "2", "6", "-", "0", "2", "-", "2", "1">>)) >>

\* The raw records transform_sales_data is applied to: three of the sample
\* rows (discounted, plain, invalid), a plain valid row, and that row with one
\* field replaced by a boundary, malformed or absent (no such column) value,
\* or cut short (a CSV line with fewer fields than the header).  The prices
\* include decimals that no double holds exactly, at the 500 and 1000
\* thresholds and at the midpoint of two hundredths.
BaseRow ==
    Row(Text(<<"A">>), Text(<<"a", "l">>), Text(<<"p">>),
        Text(<<"1">>), Text(<<"1">>), Text(<<"2", "0", "2", "6", "-", "1", "-", "5">>))

\* BaseRow with the field `key` replaced by each of `fields` in turn.
Replaced(key, fields) ==
    AsSeq([i \in 1..Len(fields) |-> [BaseRow EXCEPT ![key] = fields[i]]])

RawRowSeq ==
    <<SampleData[1], SampleData[2], SampleData[6], BaseRow,
      [BaseRow EXCEPT !.quantity = Str(Text(<<"3">>)),
                      !.price = Str(Text(<<"0", ".", "1", "2", "5">>))]>>
    \o Replaced("order_id",
        << Str(<<>>),
          Str(<<Space, 10>>),                   \* a blank and a newline
          Missing >>)
    \o Replaced("customer_name",
        << Str(<<109, 97, 114, 237, 97, 32, 74, 79, 83, 201>>),   \* "maría JOSÉ"
          Missing >>)
    \o Replaced("quantity",
        << Str(Text(<<"0">>)),
          Str(Text(<<"x">>)),
          Str(Text(<<" ", "3", " ">>)),
          Str(Text(<<"1", "_", "0">>)),
          Str(<<Ord("1")>> \o [i \in 1..400 |-> Zero]),   \* 401 digits: beyond the doubles
          Missing >>)
    \o Replaced("price",
        << Str(Text(<<"1", "0", "0", "0">>)),
          Str(Text(<<"1", "e", "3">>)),
          Str(Text(<<"1", "0", "0", "0", ".", "0", "1">>)),
          Str(Text(<<"1", "0", "0", "0", ".", "1", "5">>)),
          Str(Text(<<"4", "9", "9", ".", "9", "9", "6">>)),
          Str(Text(<<"4", "9", "9", ".", "9", "9", "4">>)),
          Str(Text(<<"2", ".", "6", "7", "5">>)),
          Str(Text(<<"4", "9", "9", ".", "9", "9", "4", "9", "9", "9", "9", "9", "9", "9", "9", "9", "9", "9">>)),   \* the double just above 499.995
          Str(Text(<<"1", "0", "0", "0", ".", "0", "0", "5", "0", "0", "0", "0", "0", "0", "0", "0", "0", "0", "1">>)),   \* the double just below 1000.005
          Str(Text(<<"1", "0", "0", "0", ".", "2", "5">>)),   \* 1000.25 * 0.9 = 900.225
          Str(Text(<<"0", ".", "1", "2", "5">>)),   \* exactly halfway between 0.12 and 0.13
          Str(Text(<<"5", "0", "0", ".", "0", "0", "5">>)),
          Str(Text(<<"0", ".", "0", "0", "0", "1">>)),
          Str(Text(<<"n", "a", "n">>)),
          Str(Text(<<"i", "n", "f">>)),
          Str(Text(<<"a", "b", "c">>)),
          Str(Text(<<"-", "5">>)) >>)
    \o Replaced("order_date",
        << Str(Text(<<"2", "0", "2", "6", "-", "0", "2", "-", "3", "0">>)),
          Str(Text(<<"2", "0", "2", "6", "0", "2", "0", "5">>)),
          Str(Text(<<" ", "2", "0", "2", "4", "-", "0", "2", "-", "2", "9">>) \o <<10>>),   \* ends in a newline
          Missing >>)
    \o AsSeq([k \in 1..5 |-> ShortLine(BaseRow, k)])
RawRows == {RawRowSeq[i] : i \in 1..Len(RawRowSeq)}

SeqsUpTo(S, n) == UNION {[1..k -> S] : k \in 0..n}

\* ------------------------------------------------------------ the row loop
\* The records whose iteration is worked out once: those of RawRowSeq, the
\* rest of the sample file, and a sample line cut short.
ShortRow == ShortLine(SampleData[1], 2)
KnownRows == RawRowSeq \o <<SampleData[3], SampleData[4], SampleData[5], ShortRow>>
KnownOutcomes == AsSeq([i \in 1..Len(KnownRows) |-> TransformRow(KnownRows[i])])

\* The iteration of the row loop for `row`: TransformRow(row), taken from
\* KnownOutcomes when the record is one of KnownRows.
IterationAt(row, i) == IF i > 0 THEN KnownOutcomes[i] ELSE TransformRow(row)
Iteration(row) == IterationAt(row, IndexIn(row, KnownRows))

\* The loop over raw_data: the rows appended, in input order; an exception the
\* except clause does not swallow ends the call, and nothing is returned.
IsAppend(r) == r.outcome = "append"
Records(appended) == AsSeq([k \in 1..Len(appended) |-> appended[k].rec[1]])
LoopEnd(outcomes, first) ==
    IF first > 0 THEN [exc |-> outcomes[first].exc, out |-> <<>>]
    ELSE [exc |-> "none", out |-> Records(SelectSeq(outcomes, IsAppend))]
Loop(outcomes) == LoopEnd(outcomes, Least({i \in 1..Len(outcomes) : outcomes[i].outcome = "raise"}))
transform_sales_data(raw) == Loop(AsSeq([i \in 1..Len(raw) |-> Iteration(raw[i])]))
\* ================================================================= state
VARIABLES
    run,            \* which invocation of the pipeline this is (1..MaxRuns)
    clock,          \* the wall clock: the latest reading of utcnow / GETDATE
    \* ---- 3b.ETL.py: run_etl_pipeline
    csv_file,       \* the file at csv_path: [status, rows]
    pc,             \* the stage the run has reached
    exc,            \* the exception that ended the run, or "none"
    file_open,      \* the handle of open(csv_path) is open
    raw_data,       \* extract_sales_data's result
    data,           \* transform_sales_data's result, stamped by the loader
    client,         \* load_to_bigquery has its bigquery.Client
    not_found,      \* the resource whose NotFound is being handled, or "none"
    dataset_exists, \* BigQuery: the dataset exists
    table_exists,   \* BigQuery: the table exists
    table_rows,     \* BigQuery: the table's rows, in arrival order
    created,        \* how many create_dataset / create_table calls were made
    submitted,      \* load jobs this run has submitted
    loaded,         \* load jobs that completed, over all runs
    \* ---- 2a.EL.py: the module-level script
    el_pc, el_exc, conn_open, orders, df, el_table,
    \* ---- 3a.ETL.py: etl_to_bigquery
    s_pc, s_exc, sales_data, s_table

sharedVars == <<run, clock>>
etlVars == <<csv_file, pc, exc, file_open, raw_data, data, client, not_found,
             dataset_exists, table_exists, table_rows, created, submitted, loaded>>
elVars == <<el_pc, el_exc, conn_open, orders, df, el_table>>
simpleVars == <<s_pc, s_exc, sales_data, s_table>>
vars == <<sharedVars, etlVars, elVars, simpleVars>>

StageNo(stage) ==
    IndexIn(stage, <<"NotStarted", "Extracted", "Transformed", "DatasetEnsured",
                     "TableEnsured", "Loaded", "Verified", "Done">>)

\* row["loaded_at"] = loaded_at
Stamp(row, loaded_at) == [loaded_at |-> loaded_at] @@ row
StampAll(rows, loaded_at) == [i \in 1..Len(rows) |-> Stamp(rows[i], loaded_at)]
Unstamped(row) == [k \in DOMAIN row \ {"loaded_at"} |-> row[k]]

\* ------------------------------------------------------------ extraction
\* open(csv_path, "r"): FileNotFoundError when there is no such file.
ExtractOpen ==
    /\ pc = "NotStarted" /\ exc = "none" /\ ~file_open
    /\ IF csv_file.status = "missing"
       THEN exc' = "FileNotFoundError" /\ file_open' = FALSE
       ELSE exc' = exc /\ file_open' = TRUE
    /\ UNCHANGED <<csv_file, pc, raw_data, data, client, not_found, dataset_exists,
                   table_exists, table_rows, created, submitted, loaded>>
    /\ UNCHANGED <<sharedVars, elVars, simpleVars>>

\* data = list(csv.DictReader(f)) inside the with block, then the return;
\* __exit__ of the with block closes the handle however the block ends.
ExtractRead ==
    /\ pc = "NotStarted" /\ exc = "none" /\ file_open
    /\ file_open' = FALSE
    /\ IF csv_file.status = "undecodable"
       THEN exc' = "UnicodeDecodeError" /\ UNCHANGED <<pc, raw_data>>
       ELSE exc' = exc /\ raw_data' = csv_file.rows /\ pc' = "Extracted"
    /\ UNCHANGED <<csv_file, data, client, not_found, dataset_exists, table_exists,
                   table_rows, created, submitted, loaded>>
    /\ UNCHANGED <<sharedVars, elVars, simpleVars>>

\* transformed_data = transform_sales_data(raw_data): its return value, or
\* the exception that leaves it.
TransformEnd(r) ==
    /\ exc' = r.exc
    /\ data' = r.out
    /\ pc' = IF r.exc = "none" THEN "Transformed" ELSE pc
Transform ==
    /\ pc = "Extracted" /\ exc = "none"
    /\ TransformEnd(transform_sales_data(raw_data))
    /\ UNCHANGED <<csv_file, file_open, raw_data, client, not_found, dataset_exists,
                   table_exists, table_rows, created, submitted, loaded>>
    /\ UNCHANGED <<sharedVars, elVars, simpleVars>>

\* ------------------------------------------------------- load_to_bigquery
\* BigQuery, as its API documents it.
\* client.get_dataset / client.get_table: the resource, or NotFound.
GetResource(exists) == IF exists THEN "found" ELSE "NotFound"
\* client.create_dataset / client.create_table (no exists_ok): Conflict when
\* the resource is already there.
CreateResource(exists) == IF exists THEN "Conflict" ELSE "created"
\* A completed load job: WRITE_APPEND adds the batch after the table's rows,
\* WRITE_TRUNCATE replaces the rows by the batch.
LoadJob(rows, batch, disposition) ==
    CASE disposition = "WRITE_APPEND" -> rows \o batch
      [] disposition = "WRITE_TRUNCATE" -> batch
\* The write disposition of a load job that is given no job_config.
DefaultWriteDisposition == "WRITE_APPEND"

\* client = bigquery.Client(project=project_id): raises when the environment
\* holds no credentials.
NewClient ==
    /\ pc = "Transformed" /\ exc = "none" /\ ~client
    /\ \E ok \in BOOLEAN :
        IF ok THEN client' = TRUE /\ exc' = exc
        ELSE exc' = "DefaultCredentialsError" /\ client' = client
    /\ UNCHANGED <<csv_file, pc, file_open, raw_data, data, not_found, dataset_exists,
                   table_exists, table_rows, created, submitted, loaded>>
    /\ UNCHANGED <<sharedVars, elVars, simpleVars>>

\* (mutant) the NotFound handler is entered whatever get_dataset returns.
GetDatasetUnchecked ==
    /\ pc = "Transformed" /\ exc = "none" /\ client /\ not_found = "none"
    /\ not_found' = "dataset"
    /\ UNCHANGED <<csv_file, pc, exc, file_open, raw_data, data, client, dataset_exists,
                   table_exists, table_rows, created, submitted, loaded>>
    /\ UNCHANGED <<sharedVars, elVars, simpleVars>>

\* try: client.get_dataset(dataset_ref)  except NotFound: (the handler is the
\* next step).  `ok` is false when the service fails the call for a reason
\* of its own; that exception is not caught.
GetDataset ==
    /\ pc = "Transformed" /\ exc = "none" /\ client /\ not_found = "none"
    /\ \E ok \in BOOLEAN :
        IF ~ok THEN exc' = "Forbidden" /\ UNCHANGED <<pc, not_found>>
        ELSE IF GetResource(dataset_exists) = "NotFound"
        THEN not_found' = "dataset" /\ UNCHANGED <<pc, exc>>
        ELSE pc' = "DatasetEnsured" /\ UNCHANGED <<exc, not_found>>
    /\ UNCHANGED <<csv_file, file_open, raw_data, data, client, dataset_exists,
                   table_exists, table_rows, created, submitted, loaded>>
    /\ UNCHANGED <<sharedVars, elVars, simpleVars>>

\* except NotFound: client.create_dataset(dataset)
CreateDataset ==
    /\ pc = "Transformed" /\ exc = "none" /\ not_found = "dataset"
    /\ \E ok \in BOOLEAN :
        IF ~ok
        THEN exc' = "ServiceUnavailable" /\ UNCHANGED <<pc, not_found, dataset_exists, created>>
        ELSE IF CreateResource(dataset_exists) = "Conflict"
        THEN exc' = "Conflict" /\ UNCHANGED <<pc, not_found, dataset_exists, created>>
        ELSE /\ dataset_exists' = TRUE
             /\ created' = [created EXCEPT !.dataset = @ + 1]
             /\ not_found' = "none"
             /\ pc' = "DatasetEnsured"
             /\ exc' = exc
    /\ UNCHANGED <<csv_file, file_open, raw_data, data, client, table_exists, table_rows,
                   submitted, loaded>>
    /\ UNCHANGED <<sharedVars, elVars, simpleVars>>

\* try: table = client.get_table(table_ref)  except NotFound: (next step).
GetTable ==
    /\ pc = "DatasetEnsured" /\ exc = "none" /\ not_found = "none"
    /\ \E ok \in BOOLEAN :
        IF ~ok THEN exc' = "Forbidden" /\ UNCHANGED <<pc, not_found>>
        ELSE IF GetResource(table_exists) = "NotFound"
        THEN not_found' = "table" /\ UNCHANGED <<pc, exc>>
        ELSE pc' = "TableEnsured" /\ UNCHANGED <<exc, not_found>>
    /\ UNCHANGED <<csv_file, file_open, raw_data, data, client, dataset_exists,
                   table_exists, table_rows, created, submitted, loaded>>
    /\ UNCHANGED <<sharedVars, elVars, simpleVars>>

\* except NotFound: table = client.create_table(Table(table_ref, schema))
CreateTable ==
    /\ pc = "DatasetEnsured" /\ exc = "none" /\ not_found = "table"
    /\ \E ok \in BOOLEAN :
        IF ~ok
        THEN exc' = "ServiceUnavailable" /\ UNCHANGED <<pc, not_found, table_exists, created>>
        ELSE IF CreateResource(table_exists) = "Conflict"
        THEN exc' = "Conflict" /\ UNCHANGED <<pc, not_found, table_exists, created>>
        ELSE /\ table_exists' = TRUE
             /\ created' = [created EXCEPT !.table = @ + 1]
             /\ not_found' = "none"
             /\ pc' = "TableEnsured"
             /\ exc' = exc
    /\ UNCHANGED <<csv_file, file_open, raw_data, data, client, dataset_exists, table_rows,
                   submitted, loaded>>
    /\ UNCHANGED <<sharedVars, elVars, simpleVars>>

\* (mutant) write_disposition=bigquery.WriteDisposition.WRITE_TRUNCATE
WriteDispositionTruncate == "WRITE_TRUNCATE"
\* write_disposition=bigquery.WriteDisposition.WRITE_APPEND
WriteDisposition == "WRITE_APPEND"

\* (mutant) a failed load job raises nothing, so the load is submitted again.
LoadRetrying ==
    /\ pc = "TableEnsured" /\ exc = "none"
    /\ \E now \in clock..MaxClock, ok \in BOOLEAN :
        /\ clock' = now
        /\ data' = StampAll(data, now)
        /\ submitted' = submitted + 1
        /\ IF ok
           THEN /\ table_rows' = LoadJob(table_rows, data', WriteDisposition)
                /\ loaded' = loaded + 1
                /\ pc' = "Loaded"
           ELSE UNCHANGED <<table_rows, loaded, pc>>
    /\ UNCHANGED <<run, csv_file, exc, file_open, raw_data, client, not_found,
                   dataset_exists, table_exists, created>>
    /\ UNCHANGED <<elVars, simpleVars>>

\* loaded_at = utcnow(); every row stamped with it; load_table_from_json and
\* job.result().  A job that fails loads nothing.
Load ==
    /\ pc = "TableEnsured" /\ exc = "none"
    /\ \E now \in clock..MaxClock, ok \in BOOLEAN :
        /\ clock' = now
        /\ data' = StampAll(data, now)
        /\ submitted' = submitted + 1
        /\ IF ok
           THEN /\ table_rows' = LoadJob(table_rows, data', WriteDisposition)
                /\ loaded' = loaded + 1
                /\ pc' = "Loaded"
                /\ exc' = exc
           ELSE /\ exc' = "BadRequest"
                /\ UNCHANGED <<table_rows, loaded, pc>>
    /\ UNCHANGED <<run, csv_file, file_open, raw_data, client, not_found,
                   dataset_exists, table_exists, created>>
    /\ UNCHANGED <<elVars, simpleVars>>

\* client.query(query) and the loop printing its rows: a SELECT, which
\* changes nothing; when it raises, the exception leaves load_to_bigquery.
Report ==
    /\ pc = "Loaded" /\ exc = "none"
    /\ \E ok \in BOOLEAN :
        /\ exc' = IF ok THEN "none" ELSE "GoogleAPICallError"
        /\ pc' = IF exc' = "none" THEN "Verified" ELSE pc
    /\ UNCHANGED <<csv_file, file_open, raw_data, data, client, not_found, dataset_exists,
                   table_exists, table_rows, created, submitted, loaded>>
    /\ UNCHANGED <<sharedVars, elVars, simpleVars>>

\* load_to_bigquery returns; run_etl_pipeline prints "ETL Pipeline Complete!".
Complete ==
    /\ pc = "Verified" /\ exc = "none"
    /\ pc' = "Done"
    /\ UNCHANGED <<csv_file, exc, file_open, raw_data, data, client, not_found,
                   dataset_exists, table_exists, table_rows, created, submitted, loaded>>
    /\ UNCHANGED <<sharedVars, elVars, simpleVars>>

\* The script is invoked again once a run has ended (completed or raised): a
\* new process, which writes the six sample rows to sales_data.csv anew and
\* runs the pipeline on that file, against the same destination.
RunAgain ==
    /\ pc = "Done" \/ exc # "none"
    /\ run < MaxRuns
    /\ run' = run + 1
    /\ csv_file' = [status |-> "ok", rows |-> SampleData]
    /\ pc' = "NotStarted" /\ exc' = "none" /\ file_open' = FALSE
    /\ raw_data' = <<>> /\ data' = <<>> /\ submitted' = 0
    /\ client' = FALSE /\ not_found' = "none"
    /\ UNCHANGED <<clock, dataset_exists, table_exists, table_rows,
                   created, loaded>>
    /\ UNCHANGED <<elVars, simpleVars>>

\* ------------------------------------------------------------- 2a.EL.py
\* SELECT * FROM orders WHERE order_date >= DATEADD(HOUR, -1, GETDATE()):
\* the orders of the last hour (the clock counts hours), in table order.
RECURSIVE SelectLastHour(_, _)
SelectLastHour(rows, now) ==
    IF rows = <<>> THEN <<>>
    ELSE (IF Head(rows).order_date >= now - 1 THEN <<Head(rows)>> ELSE <<>>)
         \o SelectLastHour(Tail(rows), now)

\* conn = pyodbc.connect(connection_string)
Connect ==
    /\ el_pc = "start" /\ el_exc = "none"
    /\ \E ok \in BOOLEAN :
        IF ok THEN conn_open' = TRUE /\ el_pc' = "connected" /\ el_exc' = el_exc
        ELSE el_exc' = "pyodbc.Error" /\ UNCHANGED <<conn_open, el_pc>>
    /\ UNCHANGED <<orders, df, el_table>>
    /\ UNCHANGED <<sharedVars, etlVars, simpleVars>>

\* df = pd.read_sql(query, conn): when it raises, the script ends there.
ReadSql ==
    /\ el_pc = "connected" /\ el_exc = "none"
    /\ \E ok \in BOOLEAN :
        IF ok THEN df' = SelectLastHour(orders, clock) /\ el_pc' = "read" /\ el_exc' = el_exc
        ELSE el_exc' = "DatabaseError" /\ UNCHANGED <<df, el_pc>>
    /\ UNCHANGED <<conn_open, orders, el_table>>
    /\ UNCHANGED <<sharedVars, etlVars, simpleVars>>

\* conn.close()
CloseConn ==
    /\ el_pc = "read" /\ el_exc = "none"
    /\ conn_open' = FALSE
    /\ el_pc' = "closed"
    /\ UNCHANGED <<el_exc, orders, df, el_table>>
    /\ UNCHANGED <<sharedVars, etlVars, simpleVars>>

\* client.load_table_from_dataframe(df, table_ref); job.result()
LoadDataframe ==
    /\ el_pc = "closed" /\ el_exc = "none"
    /\ \E ok \in BOOLEAN :
        IF ok THEN el_table' = LoadJob(el_table, df, DefaultWriteDisposition) /\ el_pc' = "done" /\ el_exc' = el_exc
        ELSE el_exc' = "GoogleAPICallError" /\ UNCHANGED <<el_table, el_pc>>
    /\ UNCHANGED <<conn_open, orders, df>>
    /\ UNCHANGED <<sharedVars, etlVars, simpleVars>>

\* The script is run again an hour or more later: a new process (the old
\* one's connection went with it), the same source and destination.
ElRunAgain ==
    /\ el_pc = "done" \/ el_exc # "none"
    /\ run < MaxRuns
    /\ run' = run + 1
    /\ \E now \in clock..MaxClock : clock' = now
    /\ el_pc' = "start" /\ el_exc' = "none" /\ conn_open' = FALSE /\ df' = <<>>
    /\ UNCHANGED <<orders, el_table>>
    /\ UNCHANGED <<etlVars, simpleVars>>

\* ------------------------------------------------------------- 3a.ETL.py
\* The literal sales_data of etl_to_bigquery (amount in hundredths).
SalesData ==
    << [order_id |-> "ORD001", customer |-> "Alice", amount |-> 15000],
       [order_id |-> "ORD002", customer |-> "Bob", amount |-> 20050],
       [order_id |-> "ORD003", customer |-> "Alice", amount |-> 7525] >>

Stamped(row) == "loaded_at" \in DOMAIN row

\* One iteration of `for row in sales_data`: row["loaded_at"] = utcnow().
StampRow ==
    /\ s_pc = "transform" /\ s_exc = "none"
    /\ \E i \in 1..Len(sales_data), now \in clock..MaxClock :
        /\ ~Stamped(sales_data[i])
        /\ \A j \in 1..(i - 1) : Stamped(sales_data[j])
        /\ clock' = now
        /\ sales_data' = [sales_data EXCEPT ![i] = Stamp(@, now)]
    /\ UNCHANGED <<run, s_pc, s_exc, s_table>>
    /\ UNCHANGED <<etlVars, elVars>>

\* client.load_table_from_json(sales_data, table_id); job.result()
LoadSales ==
    /\ s_pc = "transform" /\ s_exc = "none"
    /\ \A i \in 1..Len(sales_data) : Stamped(sales_data[i])
    /\ \E ok \in BOOLEAN :
        IF ok THEN s_table' = LoadJob(s_table, sales_data, DefaultWriteDisposition) /\ s_pc' = "done" /\ s_exc' = s_exc
        ELSE s_exc' = "GoogleAPICallError" /\ UNCHANGED <<s_table, s_pc>>
    /\ UNCHANGED <<sales_data>>
    /\ UNCHANGED <<sharedVars, etlVars, elVars>>

SalesRunAgain ==
    /\ s_pc = "done" \/ s_exc # "none"
    /\ run < MaxRuns
    /\ run' = run + 1
    /\ s_pc' = "transform" /\ s_exc' = "none" /\ sales_data' = SalesData
    /\ UNCHANGED <<clock, s_table>>
    /\ UNCHANGED <<etlVars, elVars>>

\* ========================================================= specifications
\* Rows an earlier load left in the destination table.
OldRows == StampAll(transform_sales_data(<<SampleData[5]>>).out, 0)

EtlIdle ==
    /\ csv_file = [status |-> "missing", rows |-> <<>>]
    /\ pc = "NotStarted" /\ exc = "none" /\ file_open = FALSE
    /\ raw_data = <<>> /\ data = <<>> /\ client = FALSE /\ not_found = "none"
    /\ dataset_exists = FALSE /\ table_exists = FALSE /\ table_rows = <<>>
    /\ created = [dataset |-> 0, table |-> 0] /\ submitted = 0 /\ loaded = 0

ElIdle ==
    /\ el_pc = "start" /\ el_exc = "none" /\ conn_open = FALSE
    /\ orders = <<>> /\ df = <<>> /\ el_table = <<>>

SimpleIdle ==
    /\ s_pc = "transform" /\ s_exc = "none" /\ sales_data = SalesData /\ s_table = <<>>

\* run_etl_pipeline of 3b.ETL.py called on a file, then the script run up to
\* MaxRuns - 1 more times, against one destination.
Init ==
    /\ run = 1 /\ clock = 0
    /\ csv_file \in { [status |-> "missing", rows |-> <<>>],
                      [status |-> "undecodable", rows |-> <<>>],
                      [status |-> "ok", rows |-> <<>>],
                      [status |-> "ok", rows |-> SampleData],
                      [status |-> "ok", rows |-> <<ShortRow, SampleData[2]>>] }
    /\ pc = "NotStarted" /\ exc = "none" /\ file_open = FALSE
    /\ raw_data = <<>> /\ data = <<>> /\ client = FALSE /\ not_found = "none"
    /\ \E dest \in { [dataset |-> FALSE, table |-> FALSE, rows |-> <<>>],
                      [dataset |-> TRUE, table |-> FALSE, rows |-> <<>>],
                      [dataset |-> TRUE, table |-> TRUE, rows |-> <<>>],
                      [dataset |-> TRUE, table |-> TRUE, rows |-> OldRows] } :
        /\ dataset_exists = dest.dataset
        /\ table_exists = dest.table
        /\ table_rows = dest.rows
    /\ created = [dataset |-> 0, table |-> 0] /\ submitted = 0 /\ loaded = 0
    /\ ElIdle /\ SimpleIdle

Next ==
    \/ ExtractOpen \/ ExtractRead \/ Transform
    \/ NewClient \/ GetDataset \/ CreateDataset \/ GetTable \/ CreateTable
    \/ Load \/ Report \/ Complete \/ RunAgain

Spec == Init /\ [][Next]_vars

\* transform_sales_data applied to every batch of up to MaxLen raw records.
InitTransform ==
    /\ run = 1 /\ clock = 0
    /\ csv_file = [status |-> "ok", rows |-> <<>>]
    /\ pc = "Extracted" /\ exc = "none" /\ file_open = FALSE
    /\ raw_data \in SeqsUpTo(RawRows, MaxLen) /\ data = <<>>
    /\ client = FALSE /\ not_found = "none"
    /\ dataset_exists = FALSE /\ table_exists = FALSE /\ table_rows = <<>>
    /\ created = [dataset |-> 0, table |-> 0] /\ submitted = 0 /\ loaded = 0
    /\ ElIdle /\ SimpleIdle


SpecTransform == InitTransform /\ [][Transform]_vars

\* The script 2a.EL.py, over every small orders table and starting hour.
InitEL ==
    /\ run = 1 /\ clock \in 0..MaxClock
    /\ EtlIdle /\ SimpleIdle
    /\ el_pc = "start" /\ el_exc = "none" /\ conn_open = FALSE
    /\ orders \in SeqsUpTo([order_id : {"o1", "o2"}, order_date : 0..MaxClock], MaxLen)
    /\ df = <<>> /\ el_table = <<>>

NextEL == Connect \/ ReadSql \/ CloseConn \/ LoadDataframe \/ ElRunAgain

SpecEL == InitEL /\ [][NextEL]_vars

\* etl_to_bigquery of 3a.ETL.py, run up to MaxRuns times.
InitSimple ==
    /\ run = 1 /\ clock = 0
    /\ EtlIdle /\ ElIdle /\ SimpleIdle

NextSimple == StampRow \/ LoadSales \/ SalesRunAgain

SpecSimple == InitSimple /\ [][NextSimple]_vars\* ================================================================= claims
Rows(s) == {s[i] : i \in 1..Len(s)}
IsPrefix(s, t) == Len(s) <= Len(t) /\ SubSeq(t, 1, Len(s)) = s
Occurrences(s, r) == Cardinality({i \in 1..Len(s) : Unstamped(s[i]) = Unstamped(r)})

\* The validation predicate of the specification, read off the raw record:
\* an order_id that is not empty once trimmed, a quantity and a price that
\* parse and are > 0, and an order_date that parses.
ValidRaw(row) ==
    LET order_id == Get(row, "order_id", <<>>)
        quantity == ParseInt(Get(row, "quantity", Text(<<"0">>)))
        price == ParseFloat(Get(row, "price", Text(<<"0">>)))
        order_date == Get(row, "order_date", <<>>)
    IN  /\ "None" \notin {order_id.t, Get(row, "customer_name", Unknown).t,
                          Get(row, "product", <<>>).t, order_date.t}
        /\ Strip(order_id.s) # <<>>
        /\ quantity.exc = "none" /\ quantity.val.s > 0
        /\ price.exc = "none" /\ FloatGt(price.val, 0)
        /\ Strptime(Strip(order_date.s)).exc = "none"

ValidRows(raw) == SelectSeq(raw, ValidRaw)

\* C1 (as claimed): whenever transform_sales_data returns, its output is the
\* valid rows of the input and nothing else, one output row per valid row in
\* input order, each with total_amount = round(quantity * price, 2); so the
\* output count is the input count minus the rejected rows.
C1_OutputIsExactlyTheValidRows ==
    pc = "Transformed" =>
        /\ Len(data) = Len(ValidRows(raw_data))
        /\ \A k \in 1..Len(data) :
            k <= Len(ValidRows(raw_data)) =>
                LET row == ValidRows(raw_data)[k] IN
                /\ data[k].order_id = Strip(Get(row, "order_id", <<>>).s)
                /\ data[k].total_amount =
                       TotalAmount(ParseInt(Get(row, "quantity", Text(<<"0">>))).val,
                                   ParseFloat(Get(row, "price", Text(<<"0">>))).val).val

\* The records the row loop does not reject.
Accepted(row) == TransformRow(row).outcome = "append"

\* C2 (as claimed): transform_sales_data never aborts the batch: whatever the
\* records, no exception leaves it, it returns, and its output is what it
\* returns for the input without the records it rejects.
C2_NeverAbortsTheBatch ==
    /\ exc = "none"
    /\ pc = "Transformed" =>
            data = transform_sales_data(SelectSeq(raw_data, Accepted)).out

\* The records transform_sales_data appends for the records of KnownRows.
KnownRecords == Records(SelectSeq(KnownOutcomes, IsAppend))

\* The floats 0.10, 0.0, 1000 and 500 of the claims.
Tenth == Dec(10, 2)
NoRate == Dec(0, 1)
Thousand == Dec(1000, 0)
Unit == Dec(1, 0)
FiveHundred == Dec(500, 0)

\* f is the float x rounded to 2 decimals: the double nearest to the decimal
\* with two places nearest to the exact value of x, the one with the even
\* last digit when x is exactly halfway between two; nan, inf and the doubles
\* too large to have a fraction are their own rounding.
Hundredths(q, r, d) ==
    IF Cmp(Twice(r), d) < 0 THEN q
    ELSE IF Cmp(Twice(r), d) > 0 THEN Add(q, <<1>>)
    ELSE IF IsOdd(q) THEN Add(q, <<1>>) ELSE q
HundredthsOf(dm, d) == Hundredths(dm.q, dm.r, d)
TwoPlaces(x, f) ==
    IF x.k # "fin" \/ x.e >= 0 THEN f = x
    ELSE f = NearestDouble(x.s, HundredthsOf(DivMod(MulSmall(x.m, 100), Pow2(-x.e)),
                                             Pow2(-x.e)),
                           <<100>>)

\* What C3 says of one output record.
DiscountedAsClaimed(r) ==
    /\ r.discount_rate \in {Tenth, NoRate}
    /\ r.discount_rate = Tenth <=> FloatGt(r.total_amount, 1000)
    /\ r.total_amount = Thousand => r.discount_rate = NoRate
    /\ TwoPlaces(FMul(r.total_amount, FSub(Unit, r.discount_rate)), r.final_amount)
\* The same, worked out once for each of KnownRecords.
KnownDiscounted ==
    AsSeq([i \in 1..Len(KnownRecords) |-> DiscountedAsClaimed(KnownRecords[i])])

\* C3: every output record has discount_rate 0.10 if and only if its
\* total_amount > 1000 and 0.0 otherwise (so 0.0 at exactly 1000), and its
\* final_amount is the float total_amount * (1 - discount_rate) rounded to 2
\* decimals, an exact tie going to the even hundredth.
C3_DiscountIffTotalAbove1000 ==
    \A r \in Rows(data) :
        LET i == IndexIn(r, KnownRecords)
        IN  IF i > 0 THEN KnownDiscounted[i] ELSE DiscountedAsClaimed(r)

\* C3 witness: one batch holds a record whose total_amount is exactly 1000
\* (the price 1000.00500000000001, read as the double below 1000.005),
\* undiscounted, and a record above 1000 that got the 10% discount, its
\* final_amount 900.13 (the float product 1000.15 * 0.9 lies below 900.135).
C3_Witness ==
    /\ pc = "Transformed"
    /\ \E r \in Rows(data) :
        /\ r.price = Dec(1000005, 3)
        /\ r.total_amount = Thousand /\ r.discount_rate = NoRate
    /\ \E r \in Rows(data) :
        r.total_amount = Dec(100015, 2) /\ r.discount_rate = Tenth
        /\ r.final_amount = Dec(90013, 2)

\* What C4 says of one output record.
CategorizedAsClaimed(r) ==
    /\ r.category \in {"High Value", "Standard"}
    /\ r.category = "High Value" <=> FloatGe(r.final_amount, 500)
    /\ r.final_amount = FiveHundred => r.category = "High Value"
\* The same, worked out once for each of KnownRecords.
KnownCategorized ==
    AsSeq([i \in 1..Len(KnownRecords) |-> CategorizedAsClaimed(KnownRecords[i])])

\* C4: every output record is "High Value" if and only if its final_amount
\* (after the discount) is >= 500, and "Standard" otherwise; exactly 500 is
\* "High Value".
C4_HighValueIffFinalAtLeast500 ==
    \A r \in Rows(data) :
        LET i == IndexIn(r, KnownRecords)
        IN  IF i > 0 THEN KnownCategorized[i] ELSE CategorizedAsClaimed(r)

\* C4 witness: one batch holds a record whose final_amount is exactly 500
\* (the price 499.99499999999999, read as the double above 499.995), "High
\* Value", and a record just below it, "Standard".
C4_Witness ==
    /\ pc = "Transformed"
    /\ \E r \in Rows(data) :
        /\ r.price = Dec(499995, 3)
        /\ r.final_amount = FiveHundred /\ r.category = "High Value"
    /\ \E r \in Rows(data) : r.final_amount = Dec(49999, 2) /\ r.category = "Standard"
\* C5: ensuring the dataset and the table is idempotent.  From every starting
\* destination, over repeated runs: no create call ever meets an existing
\* resource (no "already exists" error), the NotFound handler is entered only
\* for a resource that is not there, each resource is created at most once, a
\* run past the ensure steps has both, and an ensure step that finds its
\* resource creates nothing and leaves the table's rows as they were.
C5_EnsureIsIdempotent ==
    /\ [](/\ exc # "Conflict"
          /\ not_found = "dataset" => ~dataset_exists
          /\ not_found = "table" => ~table_exists
          /\ created.dataset <= 1 /\ created.table <= 1
          /\ StageNo(pc) >= StageNo("DatasetEnsured") => dataset_exists
          /\ StageNo(pc) >= StageNo("TableEnsured") => dataset_exists /\ table_exists)
    /\ [][/\ dataset_exists => created'.dataset = created.dataset /\ not_found' # "dataset"
          /\ table_exists => created'.table = created.table /\ not_found' # "table"
          /\ pc \in {"Transformed", "DatasetEnsured"} => table_rows' = table_rows]_vars

\* C5 witness: the first run created the dataset and the table, and the
\* second run has passed both ensure steps without creating anything.
C5_Witness ==
    /\ run = 2 /\ pc = "TableEnsured" /\ exc = "none" /\ not_found = "none"
    /\ created = [dataset |-> 1, table |-> 1]

\* C6: the load appends.  A load job that completes adds exactly the batch:
\* the rows already there stay, in place and unchanged, the table grows by
\* the size of the batch, and every record is in it as often as before plus
\* as often as in the batch (so a batch loaded twice is there twice); no
\* other step adds, removes or changes a row.
C6_LoadAppends ==
    [][/\ IsPrefix(table_rows, table_rows')
       /\ loaded' = loaded + 1 =>
            /\ Len(table_rows') = Len(table_rows) + Len(data)
            /\ \A r \in Rows(table_rows) \cup Rows(data') :
                Occurrences(table_rows', r) =
                    Occurrences(table_rows, r) + Occurrences(data', r)
       /\ loaded' = loaded => table_rows' = table_rows]_vars

\* C6 witness: the five-record sample batch was loaded twice, into a table
\* that already held a row: the table holds 1 + 2 * 5 rows, the old row
\* first, and every record of the batch at least twice.
C6_Witness ==
    /\ run = 2 /\ loaded = 2 /\ pc = "Loaded" /\ Len(data) = 5
    /\ Len(table_rows) = Len(OldRows) + 10
    /\ IsPrefix(OldRows, table_rows)
    /\ \A r \in Rows(data) : Occurrences(table_rows, r) >= 2 * Occurrences(data, r)

\* C7 (as claimed): no run of the extractor ends (done, or stopped by an
\* exception), and none goes on to load, with its source connection open.
C7_ConnectionClosedAtEnd ==
    (el_pc \in {"closed", "done"} \/ el_exc # "none") => ~conn_open

\* C8 (as claimed): the records a run submits all carry one loaded_at.
C8_OneLoadedAtPerBatch ==
    s_pc = "done" =>
        \A i, j \in 1..Len(sales_data) :
            sales_data[i].loaded_at = sales_data[j].loaded_at

\* C9: within a run the stage only ever moves to the next stage of NotStarted,
\* Extracted, Transformed, DatasetEnsured, TableEnsured, Loaded, Verified,
\* Done, and only while nothing has failed; a step that fails (the client's
\* construction included) leaves the stage where it was; once a run has
\* failed nothing of it changes any more; the destination is untouched before
\* the Transformed stage; a run submits at most one load job; a dataset or
\* table that exists is never removed, and no row of the table either.  A
\* new run starts only when the one before is done or has failed, at
\* NotStarted, and leaves the destination as that run left it.
C9_StagesInOrderAndFailureHalts ==
    [][/\ run' = run =>
            /\ pc' = pc \/ (exc = "none" /\ exc' = "none"
                            /\ StageNo(pc') = StageNo(pc) + 1)
            /\ exc' # "none" => pc' = pc
            /\ exc # "none" => UNCHANGED vars
            /\ StageNo(pc) < StageNo("Transformed") =>
                    UNCHANGED <<dataset_exists, table_exists, table_rows, created>>
       /\ run' # run =>
            /\ run' = run + 1
            /\ pc = "Done" \/ exc # "none"
            /\ pc' = "NotStarted" /\ exc' = "none" /\ submitted' = 0
            /\ UNCHANGED <<dataset_exists, table_exists, table_rows, created, loaded>>
       /\ submitted' <= 1
       /\ dataset_exists => dataset_exists'
       /\ table_exists => table_exists'
       /\ IsPrefix(table_rows, table_rows')]_vars

\* C9 witness: a second run, the first having loaded nothing, created the
\* dataset and the table; its load job failed, and it is halted at
\* TableEnsured with both still there.
C9_Witness ==
    /\ run = 2 /\ pc = "TableEnsured" /\ exc = "BadRequest" /\ submitted = 1
    /\ created = [dataset |-> 1, table |-> 1]
    /\ dataset_exists /\ table_exists /\ table_rows = <<>>

\* C10 (as claimed): once the run's load job has completed, the run does not
\* fail: whatever the reporting query does, load_to_bigquery ends normally.
C10_ReportFailureDoesNotFailTheLoad ==
    StageNo(pc) >= StageNo("Loaded") => exc = "none"
====
